---- MODULE Spec2Model ----
(***************************************************************************)
(* Rivet: the per-repository controller (repository.Repository), its       *)
(* composite Process cycle, and the fleet scheduler (watcher.Watcher).     *)
(*                                                                         *)
(* Every external command goes through CommandExecutor.Execute; a call is  *)
(* a suspension point, so each action below runs one code segment from one *)
(* suspension point to the next.  What Execute returns (exit code, error   *)
(* value, stdout) is an input of the action that resumes after the call.   *)
(***************************************************************************)
EXTENDS Integers, Sequences, FiniteSets, TLC

\* Longest stdout (in characters) a rev-parse call returns in the model.
MaxOutLen == 2
\* Largest exit code a command returns in the model (-1 is "not spawned").
MaxExit == 2

\* w.repos, in configuration order.
repos == <<"r1", "r2">>
Repos == {repos[i] : i \in DOMAIN repos}

VARIABLES
  cancelled,      \* ctx.Err() != nil
  Config,         \* Repository.Config (BasePath, CloneDirName)
  Executor,       \* Repository.Executor: which CommandExecutor it was given
  workingPath,    \* Repository.workingPath (<<>> is the empty string)
  isInitialised,  \* Repository.isInitialised
  mon,            \* position of the repository's monitorRepository goroutine
  proc,           \* which call Process is waiting on ("none": not in Process)
  pc,             \* position inside the running Repository method
  result,         \* value returned by the method that last returned
  procResult,     \* value returned by the last Process call
  trace,          \* methods entered and commands issued in the current call
  localCommit,    \* CheckForUpdates local: TrimSpace(localCommitOut)
  remoteCommit,   \* CheckForUpdates local: TrimSpace(remoteCommitOut)
  lastOutcome,    \* (exitCode, err) of the last Execute call that returned
  callLog,        \* a direct caller's record of its last two calls
  runIdx,         \* Run: number of goroutines launched so far
  wg,             \* Run: the sync.WaitGroup counter
  runDone,        \* Run has returned
  load,           \* the LoadConfig call: position, inputs read, result
  env,            \* the working copy and the service, where they are followed
  crashed         \* the runtime has ended the process after a panic

vars == <<cancelled, Config, Executor, workingPath, isInitialised, mon, proc,
          pc, result,
          procResult, trace, localCommit, remoteCommit, lastOutcome,
          callLog, runIdx, wg, runDone, load, env, crashed>>

\* Set before Run starts, never assigned by the watcher or a Repository.
fixed == <<Config, Executor, load>>
runVars == <<runIdx, wg, runDone>>
commitVars == <<localCommit, remoteCommit>>

----------------------------------------------------------------------------
(* The Process Runner: what CommandExecutor.Execute can hand back.          *)

ExitCodes == (-1)..MaxExit
\* Any implementation of the interface: every exit code, with or without err.
Outcomes == [exitCode : ExitCodes, err : BOOLEAN]

\* OSCommandExecutor.Execute: the (exitCode, err) it builds from cmd.Run().
\* status = -1 stands for "could not be started" (not an *exec.ExitError).
Execute(status) ==
  IF status = 0 THEN [exitCode |-> 0, err |-> FALSE]
  ELSE IF status > 0 THEN [exitCode |-> status, err |-> TRUE]
  ELSE [exitCode |-> -1, err |-> TRUE]

\* The executors a Repository can be given: the one main builds, or any
\* other implementation of the interface (a test double).
Executors == {"OSCommandExecutor", "other"}

\* What r.Executor.Execute can return to repository r.
Executes(r) ==
  IF Executor[r] = "OSCommandExecutor"
    THEN {Execute(status) : status \in ExitCodes}
    ELSE Outcomes

Chars == {"a", " "}
Space == {" "}
Stdouts == UNION {[1..n -> Chars] : n \in 0..MaxOutLen}

RECURSIVE TrimLeft(_)
TrimLeft(s) ==
  IF s = <<>> THEN s
  ELSE IF Head(s) \in Space THEN TrimLeft(Tail(s)) ELSE s

RECURSIVE TrimRight(_)
TrimRight(s) ==
  IF s = <<>> THEN s
  ELSE IF s[Len(s)] \in Space THEN TrimRight(SubSeq(s, 1, Len(s) - 1)) ELSE s

\* strings.TrimSpace
TrimSpace(s) == TrimRight(TrimLeft(s))

\* "Not read yet" for the two commit locals (no stdout contains "-").
NoCommit == <<"-">>

\* os.Stat outcomes
StatResults == {"exists", "notExist", "error"}

\* CheckIntervalSeconds by what time.Duration(sec) * time.Second comes to in
\* 64 bits: "inRange" for 1..9223372036 (a positive duration), "wraps" for a
\* value from 9223372037 on whose product is not positive.
IntervalClasses == {"inRange", "wraps"}

ConfigSet ==
  [BasePath : {"", "base"}, CloneDirName : {"", "app"},
   CheckIntervalSeconds : IntervalClasses]

\* What a Repository reads of its Config: no method reads the interval.
RepositoryConfigSet ==
  {c \in ConfigSet : c.CheckIntervalSeconds = "inRange"}

\* The configurations LoadConfig lets through to NewWatcher.
LoadedConfigSet ==
  {c \in ConfigSet : c.BasePath # "" /\ c.CloneDirName # ""}

----------------------------------------------------------------------------
(* The world outside the program, for a repository whose working copy and   *)
(* service nobody but this program touches: what git pull and the two       *)
(* docker compose commands leave behind.  For a repository that is not      *)
(* followed, git may answer anything.                                       *)

\* initialScale := 1
initialScale == 1

HeadStates == {"unknown", "pulled", "deployed"}
DeployEnds == {"none", "ok", "scaleUpFailed", "cancelled", "scaleDownFailed"}

\* head: "pulled" when a git pull has brought HEAD to the remote's commit,
\*   "deployed" once a deploy of that commit succeeded, "unknown" otherwise
\*   (before any pull, after the remote moved, with the copy ahead);
\* instances: the count asked for by the last scale command that exited 0;
\* lastDeploy: how the last DeployContainers that issued a command ended;
\* overScaledBy: what has left a second instance behind, if anything.
NotFollowed ==
  [followed |-> FALSE, head |-> "unknown", instances |-> initialScale,
   lastDeploy |-> "none", overScaledBy |-> "none"]

Followed == [NotFollowed EXCEPT !.followed = TRUE]

EnvSet(r, e) == env' = [env EXCEPT ![r] = IF @.followed THEN e ELSE @]

\* The tracked branch of the remote moves: a push, or a forced push.
RemoteAdvances(r) ==
  /\ env[r].followed
  /\ env[r].head # "unknown"
  /\ env' = [env EXCEPT ![r].head = "unknown"]
  /\ UNCHANGED <<cancelled, crashed, fixed, workingPath, isInitialised, mon, proc, pc,
                 result, procResult, trace, commitVars, lastOutcome, callLog,
                 runVars>>

----------------------------------------------------------------------------
(* LoadConfig: the configuration file is read, parsed and validated entry   *)
(* by entry.                                                                *)

MaxRepositories == 2

\* DefaultCheckIntervalSeconds = 5 * 60
DefaultCheckIntervalSeconds == 5 * 60
DefaultComposeFile == "docker-compose.yml"

\* A repository entry as yaml.Unmarshal leaves it: an absent key is the zero
\* value.
RepositoryConfigs ==
  [BasePath : {"", "base"}, GitURL : {"", "url"}, CloneDirName : {"", "app"},
   Branch : {"", "main"}, ServiceName : {"", "web"},
   ComposeFile : {"", "c.yml"}, CheckIntervalSeconds : {-1, 0, 60}]

ZeroRepositoryConfig ==
  [BasePath |-> "", GitURL |-> "", CloneDirName |-> "", Branch |-> "",
   ServiceName |-> "", ComposeFile |-> "", CheckIntervalSeconds |-> 0]

ReadResults == {"ok", "notExist", "error"}

NotLoading ==
  [pc |-> "idle", filePath |-> "", absOk |-> TRUE, read |-> "ok",
   yamlOk |-> TRUE, n |-> 0, i |-> 0, entry |-> ZeroRepositoryConfig,
   cfg |-> <<>>, isNil |-> TRUE, err |-> FALSE]

\* Mutation: serviceName is not validated.
MissingRequiredButService(e) ==
  \/ e.BasePath = "" \/ e.GitURL = "" \/ e.CloneDirName = ""
  \/ e.Branch = ""

\* The five tests of the validation loop.
MissingRequired(e) ==
  \/ e.BasePath = "" \/ e.GitURL = "" \/ e.CloneDirName = ""
  \/ e.Branch = "" \/ e.ServiceName = ""

\* The defaults applied to an entry that passed validation.
WithDefaults(e) ==
  [e EXCEPT !.ComposeFile = IF @ = "" THEN DefaultComposeFile ELSE @,
            !.CheckIntervalSeconds =
               IF @ <= 0 THEN DefaultCheckIntervalSeconds ELSE @]

\* return nil, fmt.Errorf(...)
LoadFails(l) == [l EXCEPT !.pc = "done", !.isNil = TRUE, !.err = TRUE,
                          !.cfg = <<>>]

watcherVars ==
  <<cancelled, Config, Executor, workingPath, isInitialised, mon, proc, pc,
    result, procResult, trace, commitVars, lastOutcome, callLog, runVars,
    env, crashed>>

\* LoadConfig up to yaml.Unmarshal: the path, the file, the document.
LoadConfig ==
  /\ load.pc = "start"
  /\ \E filePath \in {"", "rivet.yaml"}, absOk \in BOOLEAN,
        read \in ReadResults, yamlOk \in BOOLEAN, n \in 0..MaxRepositories :
       LET l == [load EXCEPT !.filePath = filePath, !.absOk = absOk,
                             !.read = read, !.yamlOk = yamlOk]
       IN
       IF filePath = "" THEN load' = LoadFails(l)
       ELSE IF ~absOk THEN load' = LoadFails(l)
       ELSE IF read # "ok" THEN load' = LoadFails(l)
       ELSE IF ~yamlOk THEN load' = LoadFails(l)
       ELSE load' = [l EXCEPT !.pc = "validate", !.n = n, !.i = 0]
  /\ UNCHANGED watcherVars

\* One pass of the loop over cfg.Repositories: validate entry i, then apply
\* its defaults.
LoadConfigValidate ==
  /\ load.pc = "validate"
  /\ load.i < load.n
  /\ \E e \in RepositoryConfigs :
       LET l == [load EXCEPT !.entry = e]
       IN
       IF MissingRequired(e) THEN load' = LoadFails(l)
       ELSE load' = [l EXCEPT !.cfg = Append(@, WithDefaults(e)),
                              !.i = @ + 1]
  /\ UNCHANGED watcherVars

\* return &cfg, nil
LoadConfigReturn ==
  /\ load.pc = "validate"
  /\ load.i = load.n
  /\ load' = [load EXCEPT !.pc = "done", !.isNil = FALSE, !.err = FALSE]
  /\ UNCHANGED watcherVars

InitConfig ==
  /\ cancelled = FALSE
  /\ Config = [r \in Repos |->
                 CHOOSE c \in LoadedConfigSet :
                   c.CheckIntervalSeconds = "inRange"]
  /\ Executor = [r \in Repos |-> "OSCommandExecutor"]
  /\ workingPath = [r \in Repos |-> <<>>]
  /\ isInitialised = [r \in Repos |-> FALSE]
  /\ mon = [r \in Repos |-> "unstarted"]
  /\ proc = [r \in Repos |-> "none"]
  /\ pc = [r \in Repos |-> "idle"]
  /\ result = [r \in Repos |-> "none"]
  /\ procResult = [r \in Repos |-> "none"]
  /\ trace = [r \in Repos |-> <<>>]
  /\ localCommit = [r \in Repos |-> NoCommit]
  /\ remoteCommit = [r \in Repos |-> NoCommit]
  /\ lastOutcome = [r \in Repos |-> <<>>]
  /\ callLog = [r \in Repos |-> <<>>]
  /\ runIdx = 0
  /\ wg = 0
  /\ runDone = FALSE
  /\ load = [NotLoading EXCEPT !.pc = "start"]
  /\ crashed = FALSE
  /\ env = [r \in Repos |-> NotFollowed]

NextConfig ==
  \/ LoadConfig
  \/ LoadConfigValidate
  \/ LoadConfigReturn

\* main up to the return of LoadConfig.
SpecConfig == InitConfig /\ [][NextConfig]_vars

----------------------------------------------------------------------------
(* Bookkeeping helpers                                                      *)

Return(r, v) ==
  /\ pc' = [pc EXCEPT ![r] = "ret"]
  /\ result' = [result EXCEPT ![r] = v]

Goto(r, l) ==
  /\ pc' = [pc EXCEPT ![r] = l]
  /\ UNCHANGED result

Log(r, x) == trace' = [trace EXCEPT ![r] = Append(@, x)]
Log2(r, x, y) == trace' = [trace EXCEPT ![r] = Append(Append(@, x), y)]

Got(r, o) == lastOutcome' = [lastOutcome EXCEPT ![r] = <<o>>]

Has(t, x) == \E i \in DOMAIN t : t[i] = x
Count(t, x) == Cardinality({i \in DOMAIN t : t[i] = x})

LastTwo(h) == IF Len(h) > 2 THEN SubSeq(h, Len(h) - 1, Len(h)) ELSE h

----------------------------------------------------------------------------
(* Repository                                                               *)

\* getWorkingPath: the value returned and the cached path afterwards.
\* absOk: filepath.Abs succeeded.
getWorkingPath(r, absOk) ==
  IF workingPath[r] # <<>> THEN [path |-> workingPath[r], err |-> FALSE]
  ELSE IF Config[r].BasePath = "" \/ Config[r].CloneDirName = ""
    THEN [path |-> <<>>, err |-> TRUE]
  ELSE IF ~absOk THEN [path |-> <<>>, err |-> TRUE]
  ELSE [path |-> <<"abs", Config[r].BasePath, Config[r].CloneDirName>>,
        err |-> FALSE]

\* Mutation: the early return of ensureCloned is missing.
AlreadyInitialisedNever(r) == FALSE

\* if r.isInitialised { return nil }
AlreadyInitialised(r) == isInitialised[r]

\* Mutation: the exit code of git clone is not looked at.
CloneFailedErrOnly(o) == o.err

\* Mutation: only a positive exit code counts as a failed clone.
CloneFailedExitPositive(o) == o.exitCode > 0

\* if err != nil { return } if exitCode != 0 { return }
CloneFailed(o) == o.err \/ o.exitCode # 0

\* ensureCloned up to the clone command: the flag, the path, the two probes.
ensureCloned(r) ==
  /\ pc[r] = "ensureCloned"
  /\ \E absOk \in BOOLEAN, gitStat \in StatResults,
        baseStat \in StatResults, mkdirOk \in BOOLEAN :
       LET wp == getWorkingPath(r, absOk)
       IN
       IF AlreadyInitialised(r) THEN
         /\ Return(r, "nil")
         /\ Log(r, "ensureCloned")
         /\ UNCHANGED <<workingPath, isInitialised>>
       ELSE IF wp.err THEN
         /\ Return(r, "error")
         /\ Log(r, "ensureCloned")
         /\ UNCHANGED <<workingPath, isInitialised>>
       ELSE
         /\ workingPath' = [workingPath EXCEPT ![r] = wp.path]
         /\ IF gitStat = "exists" THEN
              /\ isInitialised' = [isInitialised EXCEPT ![r] = TRUE]
              /\ Return(r, "nil")
              /\ Log(r, "ensureCloned")
            ELSE IF gitStat = "error"
                    \/ (baseStat = "notExist" /\ ~mkdirOk)
                    \/ baseStat = "error" THEN
              /\ Return(r, "error")
              /\ Log(r, "ensureCloned")
              /\ UNCHANGED isInitialised
            ELSE
              /\ Goto(r, "clone")
              /\ Log2(r, "ensureCloned", "clone")
              /\ UNCHANGED isInitialised
  /\ UNCHANGED <<cancelled, crashed, fixed, env, mon, proc, procResult, commitVars,
                 lastOutcome, callLog, runVars>>

\* ensureCloned after git clone returned.
ensureClonedDone(r) ==
  /\ pc[r] = "clone"
  /\ \E o \in Executes(r) :
       /\ Got(r, o)
       /\ IF CloneFailed(o) THEN
            /\ Return(r, "error")
            /\ UNCHANGED isInitialised
          ELSE
            /\ Return(r, "nil")
            /\ isInitialised' = [isInitialised EXCEPT ![r] = TRUE]
  /\ UNCHANGED <<cancelled, crashed, fixed, env, workingPath, mon, proc, procResult, trace,
                 commitVars, callLog, runVars>>

\* errFetch != nil || exitCodeFetch != 0
FetchFailed(o) == o.err \/ o.exitCode # 0
\* errLocal != nil || exitCodeLocal != 0
LocalFailed(o) == o.err \/ o.exitCode # 0
\* errRemote != nil || exitCodeRemote != 0
RemoteFailed(o) == o.err \/ o.exitCode # 0
\* Mutation: an empty commit string never compares equal.
SameCommitNonEmpty(l, m) == l = m /\ l # <<>>

\* Mutation: the two commits are not compared.
SameCommitNever(l, m) == FALSE

\* if localCommit == remoteCommit
SameCommit(l, m) == l = m
\* errAncestor != nil && exitCodeAncestor != 0 && exitCodeAncestor != 1
AncestorFailed(o) == o.err /\ o.exitCode # 0 /\ o.exitCode # 1
\* Mutation: the error value decides instead of the exit code.
IsAncestorByErr(o) == ~o.err

\* if exitCodeAncestor == 0
IsAncestor(o) == o.exitCode = 0

\* Mutation: the method does not test the flag.
NotInitialisedUnchecked(r) == FALSE

\* if !r.isInitialised { return ... fmt.Errorf("repository not initialized") }
NotInitialised(r) == ~isInitialised[r]

\* CheckForUpdates up to git fetch.
CheckForUpdates(r) ==
  /\ pc[r] = "CheckForUpdates"
  /\ \E absOk \in BOOLEAN :
       IF NotInitialised(r) THEN
         /\ Return(r, "error")
         /\ Log(r, "CheckForUpdates")
         /\ UNCHANGED workingPath
       ELSE
         /\ workingPath' = [workingPath EXCEPT
                              ![r] = getWorkingPath(r, absOk).path]
         /\ Goto(r, "fetch")
         /\ Log2(r, "CheckForUpdates", "fetch")
  /\ UNCHANGED <<cancelled, crashed, fixed, env, isInitialised, mon, proc, procResult,
                 commitVars, lastOutcome, callLog, runVars>>

\* git fetch returned; on success issue rev-parse HEAD.
CheckForUpdatesFetched(r) ==
  /\ pc[r] = "fetch"
  /\ \E o \in Executes(r) :
       /\ Got(r, o)
       /\ IF FetchFailed(o) THEN
            /\ Return(r, "error")
            /\ UNCHANGED trace
          ELSE
            /\ Goto(r, "revLocal")
            /\ Log(r, "rev-parse HEAD")
  /\ UNCHANGED <<cancelled, crashed, fixed, env, workingPath, isInitialised, mon, proc,
                 procResult, commitVars, callLog, runVars>>

\* rev-parse HEAD returned; on success issue rev-parse origin/<branch>.
CheckForUpdatesLocal(r) ==
  /\ pc[r] = "revLocal"
  /\ \E o \in Executes(r), out \in Stdouts :
       /\ Got(r, o)
       /\ IF LocalFailed(o) THEN
            /\ Return(r, "error")
            /\ UNCHANGED <<trace, localCommit>>
          ELSE
            /\ localCommit' = [localCommit EXCEPT ![r] = TrimSpace(out)]
            /\ Goto(r, "revRemote")
            /\ Log(r, "rev-parse origin")
  /\ UNCHANGED <<cancelled, crashed, fixed, env, workingPath, isInitialised, mon, proc,
                 procResult, remoteCommit, callLog, runVars>>

\* What rev-parse origin/<branch> can print: while HEAD is at the remote's
\* commit, the commit rev-parse HEAD printed.
RemoteOutputs(r) ==
  IF env[r].followed /\ env[r].head # "unknown"
    THEN {x \in Stdouts : TrimSpace(x) = localCommit[r]}
    ELSE Stdouts

\* rev-parse origin/<branch> returned; compare, and issue merge-base
\* --is-ancestor when the two commits differ.
CheckForUpdatesRemote(r) ==
  /\ pc[r] = "revRemote"
  /\ \E o \in Executes(r), out \in RemoteOutputs(r) :
       /\ Got(r, o)
       /\ IF RemoteFailed(o) THEN
            /\ Return(r, "error")
            /\ localCommit' = [localCommit EXCEPT ![r] = NoCommit]
            /\ UNCHANGED <<trace, remoteCommit>>
          ELSE
            /\ remoteCommit' = [remoteCommit EXCEPT ![r] = TrimSpace(out)]
            /\ UNCHANGED localCommit
            /\ IF SameCommit(localCommit[r], TrimSpace(out)) THEN
                 /\ Return(r, "false")
                 /\ UNCHANGED trace
               ELSE
                 /\ Goto(r, "ancestor")
                 /\ Log(r, "merge-base")
  /\ UNCHANGED <<cancelled, crashed, fixed, env, workingPath, isInitialised, mon, proc,
                 procResult, callLog, runVars>>

\* merge-base --is-ancestor returned.
CheckForUpdatesAncestor(r) ==
  /\ pc[r] = "ancestor"
  /\ \E o \in Executes(r) :
       /\ Got(r, o)
       /\ IF AncestorFailed(o) THEN Return(r, "error")
          ELSE IF IsAncestor(o) THEN Return(r, "true")
          ELSE Return(r, "false")
  /\ localCommit' = [localCommit EXCEPT ![r] = NoCommit]
  /\ remoteCommit' = [remoteCommit EXCEPT ![r] = NoCommit]
  /\ UNCHANGED <<cancelled, crashed, fixed, env, workingPath, isInitialised, mon, proc,
                 procResult, trace, callLog, runVars>>

\* err != nil || exitCode != 0 (git pull)
PullFailed(o) == o.err \/ o.exitCode # 0
\* Mutation: the exit code of the build command is not looked at.
BuildFailedErrOnly(o) == o.err

\* err != nil || exitCode != 0 (docker compose build)
BuildFailed(o) == o.err \/ o.exitCode # 0
\* Mutation: the exit code of the scale-up command is not looked at.
ScaleUpFailedErrOnly(o) == o.err

\* errUp != nil || exitCodeUp != 0
ScaleUpFailed(o) == o.err \/ o.exitCode # 0
\* errDown != nil || exitCodeDown != 0
ScaleDownFailed(o) == o.err \/ o.exitCode # 0

\* The working copy after a git pull --ff-only that exited 0: at the
\* remote's commit, or still ahead of it ("Already up to date" after the
\* remote was rewound), which leaves it unknown; a copy that was at the
\* remote's commit stays as it was.
PulledHeads(r) ==
  IF env[r].head = "unknown" THEN {"pulled", "unknown"} ELSE {env[r].head}

\* PullChanges up to git pull.
PullChanges(r) ==
  /\ pc[r] = "PullChanges"
  /\ \E absOk \in BOOLEAN :
       IF NotInitialised(r) THEN
         /\ Return(r, "error")
         /\ Log(r, "PullChanges")
         /\ UNCHANGED workingPath
       ELSE
         /\ workingPath' = [workingPath EXCEPT
                              ![r] = getWorkingPath(r, absOk).path]
         /\ Goto(r, "pull")
         /\ Log2(r, "PullChanges", "pull")
  /\ UNCHANGED <<cancelled, crashed, fixed, env, isInitialised, mon, proc, procResult,
                 commitVars, lastOutcome, callLog, runVars>>

PullChangesDone(r) ==
  /\ pc[r] = "pull"
  /\ \E o \in Executes(r) :
       /\ Got(r, o)
       /\ IF PullFailed(o) THEN
            /\ Return(r, "error")
            /\ UNCHANGED env
          ELSE
            /\ Return(r, "nil")
            /\ \E h \in PulledHeads(r) : EnvSet(r, [env[r] EXCEPT !.head = h])
  /\ UNCHANGED <<cancelled, crashed, fixed, workingPath, isInitialised, mon, proc,
                 procResult, trace, commitVars, callLog, runVars>>

\* BuildContainers up to docker compose build.
BuildContainers(r) ==
  /\ pc[r] = "BuildContainers"
  /\ \E absOk \in BOOLEAN :
       IF NotInitialised(r) THEN
         /\ Return(r, "error")
         /\ Log(r, "BuildContainers")
         /\ UNCHANGED workingPath
       ELSE
         /\ workingPath' = [workingPath EXCEPT
                              ![r] = getWorkingPath(r, absOk).path]
         /\ Goto(r, "build")
         /\ Log2(r, "BuildContainers", "build")
  /\ UNCHANGED <<cancelled, crashed, fixed, env, isInitialised, mon, proc, procResult,
                 commitVars, lastOutcome, callLog, runVars>>

BuildContainersDone(r) ==
  /\ pc[r] = "build"
  /\ \E o \in Executes(r) :
       /\ Got(r, o)
       /\ IF BuildFailed(o) THEN Return(r, "error") ELSE Return(r, "nil")
  /\ UNCHANGED <<cancelled, crashed, fixed, env, workingPath, isInitialised, mon, proc,
                 procResult, trace, commitVars, callLog, runVars>>

\* DeployContainers up to the scale-up command.
\* Mutation: the scale-up asks for the instances already running.
targetScaleUpSame == initialScale

\* targetScaleUp := initialScale + 1
targetScaleUp == initialScale + 1

\* Mutation: the scale-down asks for the scaled-up count.
finalScaleUp == initialScale + 1

\* finalScale := initialScale
finalScale == initialScale

\* The --scale <service>=<n> argument of a docker compose command.
ScaleArg(cmd) == IF cmd = "scale-up" THEN targetScaleUp ELSE finalScale

DeployContainers(r) ==
  /\ pc[r] = "DeployContainers"
  /\ \E absOk \in BOOLEAN :
       IF NotInitialised(r) THEN
         /\ Return(r, "error")
         /\ Log(r, "DeployContainers")
         /\ UNCHANGED workingPath
       ELSE
         /\ workingPath' = [workingPath EXCEPT
                              ![r] = getWorkingPath(r, absOk).path]
         /\ Goto(r, "scaleUp")
         /\ Log2(r, "DeployContainers", "scale-up")
  /\ UNCHANGED <<cancelled, crashed, fixed, env, isInitialised, mon, proc, procResult,
                 commitVars, lastOutcome, callLog, runVars>>

\* The scale-up command returned; on success enter the settle wait.
DeployScaledUp(r) ==
  /\ pc[r] = "scaleUp"
  /\ \E o \in Executes(r) :
       /\ Got(r, o)
       /\ IF ScaleUpFailed(o) THEN
            /\ Return(r, "error")
            /\ UNCHANGED trace
            /\ EnvSet(r, [env[r] EXCEPT !.lastDeploy = "scaleUpFailed"])
          ELSE
            /\ Goto(r, "settle")
            /\ Log(r, "settle")
            /\ EnvSet(r, [env[r] EXCEPT !.instances = targetScaleUp])
  /\ UNCHANGED <<cancelled, crashed, fixed, workingPath, isInitialised, mon, proc,
                 procResult, commitVars, callLog, runVars>>

\* select: case <-time.After(healthCheckDelay): issue the scale-down command.
DeploySettled(r) ==
  /\ pc[r] = "settle"
  /\ Goto(r, "scaleDown")
  /\ Log(r, "scale-down")
  /\ UNCHANGED <<cancelled, crashed, fixed, env, workingPath, isInitialised, mon, proc,
                 procResult, commitVars, lastOutcome, callLog, runVars>>

\* select: case <-ctx.Done(): return ctx.Err().
DeployCancelled(r) ==
  /\ pc[r] = "settle"
  /\ cancelled
  /\ Return(r, "ctxErr")
  /\ EnvSet(r, [env[r] EXCEPT !.lastDeploy = "cancelled",
                              !.overScaledBy = "cancelled"])
  /\ UNCHANGED <<cancelled, crashed, fixed, workingPath, isInitialised, mon, proc,
                 procResult, trace, commitVars, lastOutcome, callLog,
                 runVars>>

\* The scale-down command returned.
DeployScaledDown(r) ==
  /\ pc[r] = "scaleDown"
  /\ \E o \in Executes(r) :
       /\ Got(r, o)
       /\ IF ScaleDownFailed(o) THEN
            /\ Return(r, "error")
            /\ EnvSet(r, [env[r] EXCEPT !.lastDeploy = "scaleDownFailed",
                                        !.overScaledBy = "scaleDownFailed"])
          ELSE
            /\ Return(r, "nil")
            /\ EnvSet(r, [env[r] EXCEPT
                   !.instances = finalScale,
                   !.lastDeploy = "ok",
                   !.overScaledBy = "none",
                   !.head = IF @ = "pulled" THEN "deployed" ELSE @])
  /\ UNCHANGED <<cancelled, crashed, fixed, workingPath, isInitialised, mon, proc,
                 procResult, trace, commitVars, callLog, runVars>>

----------------------------------------------------------------------------
(* Process: the composite cycle.  Each action is the code between the      *)
(* return of one method and the call of the next.                          *)

Steps == <<"ensureCloned", "CheckForUpdates", "PullChanges",
           "BuildContainers", "DeployContainers">>

\* A method is entered: its locals are fresh.
Call(r, method) ==
  /\ pc' = [pc EXCEPT ![r] = method]
  /\ result' = [result EXCEPT ![r] = "none"]
  /\ lastOutcome' = [lastOutcome EXCEPT ![r] = <<>>]
  /\ localCommit' = [localCommit EXCEPT ![r] = NoCommit]
  /\ remoteCommit' = [remoteCommit EXCEPT ![r] = NoCommit]

\* Process returns v to its caller.
ProcessReturn(r, v) ==
  /\ proc' = [proc EXCEPT ![r] = "ret"]
  /\ procResult' = [procResult EXCEPT ![r] = v]
  /\ pc' = [pc EXCEPT ![r] = "idle"]
  /\ result' = [result EXCEPT ![r] = "none"]
  /\ lastOutcome' = [lastOutcome EXCEPT ![r] = <<>>]
  /\ localCommit' = [localCommit EXCEPT ![r] = NoCommit]
  /\ remoteCommit' = [remoteCommit EXCEPT ![r] = NoCommit]

\* Process continues with the next method.
ProcessCall(r, step) ==
  /\ proc' = [proc EXCEPT ![r] = step]
  /\ Call(r, step)
  /\ UNCHANGED procResult

\* Process is entered: it calls ensureCloned first.
Process(r) ==
  /\ proc' = [proc EXCEPT ![r] = "ensureCloned"]
  /\ procResult' = [procResult EXCEPT ![r] = "none"]
  /\ trace' = [trace EXCEPT ![r] = <<>>]
  /\ Call(r, "ensureCloned")

\* Mutation: a failed step is logged but Process does not return.
StepFailedIgnored(v) == FALSE

\* if err != nil { return fmt.Errorf(...) }
StepFailed(v) == v = "error" \/ v = "ctxErr"

\* Mutation: Process does not test the context between steps.
CtxErrUnchecked == FALSE

\* if ctx.Err() != nil { return ctx.Err() }
CtxErr == cancelled

\* Mutation: Process does not test updatesFound.
NoUpdatesIgnored(v) == FALSE

\* if !updatesFound { return nil }
NoUpdates(v) == v = "false"

ProcessAfterEnsure(r) ==
  /\ proc[r] = "ensureCloned" /\ pc[r] = "ret"
  /\ IF StepFailed(result[r]) THEN ProcessReturn(r, "error")
     ELSE IF CtxErr THEN ProcessReturn(r, "ctxErr")
     ELSE ProcessCall(r, "CheckForUpdates")
  /\ UNCHANGED <<cancelled, crashed, fixed, env, workingPath, isInitialised, mon, trace,
                 callLog, runVars>>

ProcessAfterCheck(r) ==
  /\ proc[r] = "CheckForUpdates" /\ pc[r] = "ret"
  /\ IF StepFailed(result[r]) THEN ProcessReturn(r, "error")
     ELSE IF CtxErr THEN ProcessReturn(r, "ctxErr")
     ELSE IF NoUpdates(result[r]) THEN ProcessReturn(r, "nil")
     ELSE ProcessCall(r, "PullChanges")
  /\ UNCHANGED <<cancelled, crashed, fixed, env, workingPath, isInitialised, mon, trace,
                 callLog, runVars>>

ProcessAfterPull(r) ==
  /\ proc[r] = "PullChanges" /\ pc[r] = "ret"
  /\ IF StepFailed(result[r]) THEN ProcessReturn(r, "error")
     ELSE IF CtxErr THEN ProcessReturn(r, "ctxErr")
     ELSE ProcessCall(r, "BuildContainers")
  /\ UNCHANGED <<cancelled, crashed, fixed, env, workingPath, isInitialised, mon, trace,
                 callLog, runVars>>

ProcessAfterBuild(r) ==
  /\ proc[r] = "BuildContainers" /\ pc[r] = "ret"
  /\ IF StepFailed(result[r]) THEN ProcessReturn(r, "error")
     ELSE IF CtxErr THEN ProcessReturn(r, "ctxErr")
     ELSE ProcessCall(r, "DeployContainers")
  /\ UNCHANGED <<cancelled, crashed, fixed, env, workingPath, isInitialised, mon, trace,
                 callLog, runVars>>

ProcessAfterDeploy(r) ==
  /\ proc[r] = "DeployContainers" /\ pc[r] = "ret"
  /\ IF StepFailed(result[r]) THEN ProcessReturn(r, "error")
     ELSE IF CtxErr THEN ProcessReturn(r, "ctxErr")
     ELSE ProcessReturn(r, "nil")
  /\ UNCHANGED <<cancelled, crashed, fixed, env, workingPath, isInitialised, mon, trace,
                 callLog, runVars>>

----------------------------------------------------------------------------
(* Watcher                                                                  *)

\* The goroutine leaves monitorRepository: deferred wg.Done().
monitorExit(r) ==
  /\ mon' = [mon EXCEPT ![r] = "exited"]
  /\ wg' = wg - 1

\* After Process returned: if ctx.Err() != nil { return }
StopMonitoring(r) == cancelled

\* time.NewTicker panics for a duration that is not positive.
NonPositiveInterval(r) == Config[r].CheckIntervalSeconds = "wraps"

\* The process is running: the runtime has not ended it.
Live == ~crashed

\* monitorRepository: the initial check.
monitorRepository(r) ==
  /\ mon[r] = "start"
  /\ mon' = [mon EXCEPT ![r] = "initial"]
  /\ Process(r)
  /\ UNCHANGED <<cancelled, crashed, fixed, env, workingPath, isInitialised, callLog,
                 runVars>>

\* The initial Process returned: log, then if ctx.Err() != nil { return },
\* then time.NewTicker; when it panics the goroutine unwinds through the
\* deferred wg.Done() of Run's go func and never reaches the select.
monitorInitialDone(r) ==
  /\ mon[r] = "initial" /\ proc[r] = "ret"
  /\ proc' = [proc EXCEPT ![r] = "none"]
  /\ procResult' = [procResult EXCEPT ![r] = "none"]
  /\ trace' = [trace EXCEPT ![r] = <<>>]
  /\ IF StopMonitoring(r) THEN monitorExit(r)
     ELSE IF NonPositiveInterval(r)
       THEN mon' = [mon EXCEPT ![r] = "panicked"] /\ wg' = wg - 1
     ELSE mon' = [mon EXCEPT ![r] = "waitTick"] /\ UNCHANGED wg
  /\ UNCHANGED <<cancelled, crashed, fixed, env, workingPath, isInitialised, pc, result,
                 commitVars, lastOutcome, callLog, runIdx, runDone>>

\* Mutation: every tick starts a cycle, also while one is running.
TickReadyAnytime(r) == mon[r] \in {"waitTick", "initial", "scheduled"}

\* The goroutine is in the select and ticker.C has a tick for it.
TickReady(r) == mon[r] = "waitTick"

\* select: case <-ticker.C: run Process.
monitorTick(r) ==
  /\ TickReady(r)
  /\ mon' = [mon EXCEPT ![r] = "scheduled"]
  /\ Process(r)
  /\ UNCHANGED <<cancelled, crashed, fixed, env, workingPath, isInitialised, callLog,
                 runVars>>

\* select: case <-ctx.Done(): return.
monitorCtxDone(r) ==
  /\ mon[r] = "waitTick"
  /\ cancelled
  /\ monitorExit(r)
  /\ UNCHANGED <<cancelled, crashed, fixed, env, workingPath, isInitialised, proc, pc,
                 result, procResult, trace, commitVars, lastOutcome,
                 callLog, runIdx, runDone>>

\* The scheduled Process returned: log, then if ctx.Err() != nil { return }.
monitorScheduledDone(r) ==
  /\ mon[r] = "scheduled" /\ proc[r] = "ret"
  /\ proc' = [proc EXCEPT ![r] = "none"]
  /\ procResult' = [procResult EXCEPT ![r] = "none"]
  /\ trace' = [trace EXCEPT ![r] = <<>>]
  /\ IF StopMonitoring(r) THEN monitorExit(r)
     ELSE mon' = [mon EXCEPT ![r] = "waitTick"] /\ UNCHANGED wg
  /\ UNCHANGED <<cancelled, crashed, fixed, env, workingPath, isInitialised, pc, result,
                 commitVars, lastOutcome, callLog, runIdx, runDone>>

\* Run: wg.Add(1); go func(repo) {...}(repoInstance), in w.repos order.
Run ==
  /\ Live
  /\ runIdx < Len(repos)
  /\ runIdx' = runIdx + 1
  /\ wg' = wg + 1
  /\ mon' = [mon EXCEPT ![repos[runIdx + 1]] = "start"]
  /\ UNCHANGED <<cancelled, crashed, fixed, env, workingPath, isInitialised, proc, pc,
                 result, procResult, trace, commitVars, lastOutcome,
                 callLog, runDone>>

\* wg.Wait() returns when the counter is zero.
WaitReturns == wg = 0

\* Run: wg.Wait() returns.
RunReturn ==
  /\ Live
  /\ runIdx = Len(repos)
  /\ WaitReturns
  /\ ~runDone
  /\ runDone' = TRUE
  /\ UNCHANGED <<cancelled, crashed, fixed, env, workingPath, isInitialised, mon, proc, pc,
                 result, procResult, trace, commitVars, lastOutcome,
                 callLog, runIdx, wg>>

\* A goroutine has panicked and nothing recovers: once its deferred calls
\* have run, the runtime reports the panic and ends the process with status
\* 2, every other goroutine with it wherever it is.
FatalPanic ==
  /\ Live
  /\ \E r \in Repos : mon[r] = "panicked"
  /\ crashed' = TRUE
  /\ UNCHANGED <<cancelled, fixed, env, workingPath, isInitialised, mon, proc,
                 pc, result, procResult, trace, commitVars, lastOutcome,
                 callLog, runVars>>

\* main: the signal goroutine calls cancel().
Cancel ==
  /\ Live
  /\ ~cancelled
  /\ cancelled' = TRUE
  /\ UNCHANGED <<crashed, fixed, env, workingPath, isInitialised, mon, proc,
                 pc, result, procResult, trace, commitVars, lastOutcome,
                 callLog, runVars>>

----------------------------------------------------------------------------

Init ==
  /\ cancelled = FALSE
  /\ Config \in [Repos -> LoadedConfigSet]
  /\ Executor = [r \in Repos |-> "OSCommandExecutor"]
  /\ workingPath = [r \in Repos |-> <<>>]
  /\ isInitialised = [r \in Repos |-> FALSE]
  /\ mon = [r \in Repos |-> "unstarted"]
  /\ proc = [r \in Repos |-> "none"]
  /\ pc = [r \in Repos |-> "idle"]
  /\ result = [r \in Repos |-> "none"]
  /\ procResult = [r \in Repos |-> "none"]
  /\ trace = [r \in Repos |-> <<>>]
  /\ localCommit = [r \in Repos |-> NoCommit]
  /\ remoteCommit = [r \in Repos |-> NoCommit]
  /\ lastOutcome = [r \in Repos |-> <<>>]
  /\ callLog = [r \in Repos |-> <<>>]
  /\ runIdx = 0
  /\ wg = 0
  /\ runDone = FALSE
  /\ load = NotLoading
  /\ crashed = FALSE
  /\ env = [r \in Repos |-> NotFollowed]

\* One step of a Repository method or of Process for repository r.
RepositoryStep(r) ==
  \/ ensureCloned(r)
  \/ ensureClonedDone(r)
  \/ CheckForUpdates(r)
  \/ CheckForUpdatesFetched(r)
  \/ CheckForUpdatesLocal(r)
  \/ CheckForUpdatesRemote(r)
  \/ CheckForUpdatesAncestor(r)
  \/ PullChanges(r)
  \/ PullChangesDone(r)
  \/ BuildContainers(r)
  \/ BuildContainersDone(r)
  \/ DeployContainers(r)
  \/ DeployScaledUp(r)
  \/ DeploySettled(r)
  \/ DeployCancelled(r)
  \/ DeployScaledDown(r)
  \/ ProcessAfterEnsure(r)
  \/ ProcessAfterCheck(r)
  \/ ProcessAfterPull(r)
  \/ ProcessAfterBuild(r)
  \/ ProcessAfterDeploy(r)

\* One step of the goroutine monitoring repository r.
MonitorStep(r) ==
  /\ Live
  /\ \/ monitorRepository(r)
     \/ monitorInitialDone(r)
     \/ monitorTick(r)
     \/ monitorCtxDone(r)
     \/ monitorScheduledDone(r)
     \/ RepositoryStep(r)

----------------------------------------------------------------------------
(* A direct caller of one Repository: it calls the exported methods (and   *)
(* ensureCloned, as the package's own tests can) one after the other, in   *)
(* any order, and keeps a record of its last two calls.                    *)

Methods == {Steps[i] : i \in DOMAIN Steps} \cup {"Process"}

ClientCall(r) ==
  /\ mon[r] = "client"
  /\ pc[r] = "idle" /\ proc[r] = "none"
  /\ \E m \in Methods :
       /\ callLog' = [callLog EXCEPT ![r] = LastTwo(Append(@,
                        [method |-> m, ret |-> "running", clones |-> 0]))]
       /\ IF m = "Process" THEN Process(r)
          ELSE /\ Call(r, m)
               /\ trace' = [trace EXCEPT ![r] = <<>>]
               /\ UNCHANGED <<proc, procResult>>
  /\ UNCHANGED <<cancelled, crashed, fixed, env, workingPath, isInitialised, mon, runVars>>

ClientReturn(r) ==
  /\ mon[r] = "client"
  /\ \/ proc[r] = "none" /\ pc[r] = "ret"
     \/ proc[r] = "ret"
  /\ callLog' = [callLog EXCEPT ![r] = [@ EXCEPT ![Len(@)] =
                   [method |-> @.method,
                    ret |-> IF proc[r] = "ret" THEN procResult[r]
                            ELSE result[r],
                    clones |-> Count(trace[r], "clone")]]]
  /\ proc' = [proc EXCEPT ![r] = "none"]
  /\ procResult' = [procResult EXCEPT ![r] = "none"]
  /\ trace' = [trace EXCEPT ![r] = <<>>]
  /\ pc' = [pc EXCEPT ![r] = "idle"]
  /\ result' = [result EXCEPT ![r] = "none"]
  /\ lastOutcome' = [lastOutcome EXCEPT ![r] = <<>>]
  /\ localCommit' = [localCommit EXCEPT ![r] = NoCommit]
  /\ remoteCommit' = [remoteCommit EXCEPT ![r] = NoCommit]
  /\ UNCHANGED <<cancelled, crashed, fixed, env, workingPath, isInitialised, mon, runVars>>

InitApi ==
  /\ cancelled = FALSE
  /\ Config \in [Repos -> RepositoryConfigSet]
  /\ \E e \in Executors :
       Executor = [r \in Repos |-> IF r = repos[1] THEN e
                                   ELSE "OSCommandExecutor"]
  /\ workingPath = [r \in Repos |-> <<>>]
  /\ isInitialised = [r \in Repos |-> FALSE]
  /\ mon = [r \in Repos |-> IF r = repos[1] THEN "client" ELSE "unstarted"]
  /\ proc = [r \in Repos |-> "none"]
  /\ pc = [r \in Repos |-> "idle"]
  /\ result = [r \in Repos |-> "none"]
  /\ procResult = [r \in Repos |-> "none"]
  /\ trace = [r \in Repos |-> <<>>]
  /\ localCommit = [r \in Repos |-> NoCommit]
  /\ remoteCommit = [r \in Repos |-> NoCommit]
  /\ lastOutcome = [r \in Repos |-> <<>>]
  /\ callLog = [r \in Repos |-> <<>>]
  /\ runIdx = 0
  /\ wg = 0
  /\ runDone = FALSE
  /\ load = NotLoading
  /\ crashed = FALSE
  /\ env = [r \in Repos |-> NotFollowed]

NextApi ==
  \/ Cancel
  \/ \E r \in Repos : ClientCall(r) \/ ClientReturn(r) \/ RepositoryStep(r)

SpecApi == InitApi /\ [][NextApi]_vars

\* The direct caller on a repository as main sets it up, with its working
\* copy and its service followed.
InitFollowed ==
  /\ cancelled = FALSE
  /\ Config \in [Repos -> LoadedConfigSet \cap RepositoryConfigSet]
  /\ Executor = [r \in Repos |-> "OSCommandExecutor"]
  /\ workingPath = [r \in Repos |-> <<>>]
  /\ isInitialised = [r \in Repos |-> FALSE]
  /\ mon = [r \in Repos |-> IF r = repos[1] THEN "client" ELSE "unstarted"]
  /\ proc = [r \in Repos |-> "none"]
  /\ pc = [r \in Repos |-> "idle"]
  /\ result = [r \in Repos |-> "none"]
  /\ procResult = [r \in Repos |-> "none"]
  /\ trace = [r \in Repos |-> <<>>]
  /\ localCommit = [r \in Repos |-> NoCommit]
  /\ remoteCommit = [r \in Repos |-> NoCommit]
  /\ lastOutcome = [r \in Repos |-> <<>>]
  /\ callLog = [r \in Repos |-> <<>>]
  /\ runIdx = 0
  /\ wg = 0
  /\ runDone = FALSE
  /\ load = NotLoading
  /\ crashed = FALSE
  /\ env = [r \in Repos |-> IF r = repos[1] THEN Followed ELSE NotFollowed]

NextFollowed ==
  \/ NextApi
  \/ \E r \in Repos : RemoteAdvances(r)

SpecFollowed == InitFollowed /\ [][NextFollowed]_vars

Next ==
  \/ Run
  \/ RunReturn
  \/ Cancel
  \/ FatalPanic
  \/ \E r \in Repos : MonitorStep(r)

Spec == Init /\ [][Next]_vars

----------------------------------------------------------------------------
(* Properties                                                               *)

StepNames == {Steps[i] : i \in DOMAIN Steps}
IsStepName(x) == x \in StepNames
\* The methods Process has entered in the current cycle, in order.
StepsOf(t) == SelectSeq(t, IsStepName)
IsPrefix(t, u) == Len(t) <= Len(u) /\ \A i \in DOMAIN t : t[i] = u[i]

\* Everything the model keeps about the call in progress on r.
CallState(r) == <<proc[r], pc[r], result[r], procResult[r], trace[r]>>
\* The outcome of the Execute call that has just returned to r.
Outcome(r) == lastOutcome[r][1]

InOrder ==
  \A r \in Repos : proc[r] # "none" => IsPrefix(StepsOf(trace[r]), Steps)

FirstFailureEnds ==
  \A r \in Repos :
    (/\ proc[r] \in {"PullChanges", "BuildContainers", "DeployContainers"}
     /\ pc[r] = "ret"
     /\ result[r] \in {"error", "ctxErr"})
    => \/ CallState(r)' = CallState(r)
       \/ /\ proc'[r] = "ret"
          /\ procResult'[r] \in {"error", "ctxErr"}
          /\ trace'[r] = trace[r]

\* C1: in a Process cycle the methods are entered in the order ensureCloned,
\* CheckForUpdates, PullChanges, BuildContainers, DeployContainers, each at
\* most once, and when PullChanges, BuildContainers or DeployContainers
\* returns an error Process returns a failure without entering another.
C1_PullBuildDeployInOrder == []InOrder /\ [][FirstFailureEnds]_vars

\* A cycle in which pull succeeded and build failed has returned a failure.
C1_Witness ==
  \E r \in Repos :
    /\ proc[r] = "ret" /\ procResult[r] = "error"
    /\ Has(trace[r], "build") /\ ~Has(trace[r], "DeployContainers")

NoDeployCommands(t) ==
  /\ ~Has(t, "pull") /\ ~Has(t, "build")
  /\ ~Has(t, "scale-up") /\ ~Has(t, "scale-down")

DetectedNothing(r) ==
  proc[r] = "CheckForUpdates" /\ pc[r] = "ret" /\ result[r] = "false"

\* C2 as stated: when CheckForUpdates returns false, Process issues none of
\* pull, build, scale-up, scale-down and returns success.
C2_NoUpdatesSucceeds ==
  [][\A r \in Repos :
       DetectedNothing(r)
       => \/ CallState(r)' = CallState(r)
          \/ /\ proc'[r] = "ret"
             /\ procResult'[r] = "nil"
             /\ NoDeployCommands(trace'[r])]_vars

\* C2 amended: when CheckForUpdates returns false, Process issues none of
\* pull, build, scale-up, scale-down; it returns success if the context is
\* not cancelled at that point and the cancellation error if it is.
C2_NoUpdatesNoDeploy ==
  [][\A r \in Repos :
       DetectedNothing(r)
       => \/ CallState(r)' = CallState(r)
          \/ /\ proc'[r] = "ret"
             /\ procResult'[r] = (IF cancelled THEN "ctxErr" ELSE "nil")
             /\ NoDeployCommands(trace'[r])]_vars

\* A cycle that found no updates has returned success.
C2_Witness ==
  \E r \in Repos :
    /\ proc[r] = "ret" /\ procResult[r] = "nil"
    /\ Has(trace[r], "rev-parse origin") /\ ~Has(trace[r], "PullChanges")

\* C3: CheckForUpdates returns true only from the ancestor check, issued for
\* two different commits, when it exits 0; when the ancestor check of two
\* different commits exits 1 it returns false and no error.
C3_TrueOnlyWhenBehind ==
  [][\A r \in Repos :
       /\ (result'[r] = "true" /\ result[r] # "true")
          => /\ pc[r] = "ancestor"
             /\ localCommit[r] # NoCommit /\ remoteCommit[r] # NoCommit
             /\ localCommit[r] # remoteCommit[r]
             /\ Outcome(r)'.exitCode = 0
       /\ (pc[r] = "ancestor" /\ pc'[r] = "ret" /\ Outcome(r)'.exitCode = 1)
          => /\ localCommit[r] # remoteCommit[r]
             /\ result'[r] = "false"]_vars

\* CheckForUpdates has returned true after an ancestor check that exited 0.
C3_Witness ==
  \E r \in Repos :
    /\ pc[r] = "ret" /\ result[r] = "true"
    /\ Has(trace[r], "merge-base")
    /\ Outcome(r) = [exitCode |-> 0, err |-> FALSE]

\* The ancestor check exited 1 and CheckForUpdates returned false.
C3_WitnessDiverged ==
  \E r \in Repos :
    /\ pc[r] = "ret" /\ result[r] = "false"
    /\ Has(trace[r], "merge-base")
    /\ Outcome(r).exitCode = 1

\* C4: whatever Execute returns for the ancestor check, an exit code other
\* than 0 and 1 (-1 when the command was not spawned) makes CheckForUpdates
\* return an error, never false without an error.
C4_AncestorErrorSurfaces ==
  [][\A r \in Repos :
       (pc[r] = "ancestor" /\ pc'[r] = "ret"
        /\ Outcome(r)'.exitCode \notin {0, 1})
       => result'[r] = "error"]_vars

\* C5: when fetch and both rev-parse calls succeed and the two trimmed
\* commits are equal, CheckForUpdates returns false and no error, whatever
\* the commit is.
C5_EqualCommitsNoUpdates ==
  [][\A r \in Repos :
       (pc[r] = "revRemote" /\ remoteCommit'[r] # NoCommit
        /\ remoteCommit'[r] = localCommit[r])
       => pc'[r] = "ret" /\ result'[r] = "false"]_vars

\* CheckForUpdates has returned false for two equal, non-empty commits.
C5_Witness ==
  \E r \in Repos :
    /\ pc[r] = "ret" /\ result[r] = "false"
    /\ localCommit[r] = remoteCommit[r]
    /\ localCommit[r] # NoCommit /\ localCommit[r] # <<>>

TwoEnsureCalls(r) ==
  /\ Len(callLog[r]) = 2
  /\ callLog[r][1].method = "ensureCloned"
  /\ callLog[r][2].method = "ensureCloned"
  /\ callLog[r][2].ret # "running"

\* C6 as stated: two ensureCloned calls in sequence issue the clone command
\* at most once in total, whatever the clone command returns.
C6_TwoCallsOneClone ==
  \A r \in Repos :
    TwoEnsureCalls(r) => callLog[r][1].clones + callLog[r][2].clones <= 1

\* C6 amended: each ensureCloned call issues the clone command at most once,
\* and two calls in sequence issue it at most once in total when the first
\* call returns success; after a failed first call the second may issue it
\* again.
C6_CloneOnceWhenFirstSucceeds ==
  \A r \in Repos :
    TwoEnsureCalls(r)
    => /\ callLog[r][1].clones <= 1 /\ callLog[r][2].clones <= 1
       /\ callLog[r][1].ret = "nil"
          => callLog[r][1].clones + callLog[r][2].clones <= 1

\* The first call cloned and succeeded; the second returned without cloning.
C6_Witness ==
  \E r \in Repos :
    /\ TwoEnsureCalls(r)
    /\ callLog[r][1] = [method |-> "ensureCloned", ret |-> "nil", clones |-> 1]
    /\ callLog[r][2] = [method |-> "ensureCloned", ret |-> "nil", clones |-> 0]

\* C7: isInitialised never goes from true to false, and it goes from false
\* to true only when ensureCloned returns success: the .git probe found the
\* directory, or git clone returned exit code 0.
C7_InitialisedOnceByEnsure ==
  [][\A r \in Repos :
       /\ isInitialised[r] => isInitialised'[r]
       /\ (~isInitialised[r] /\ isInitialised'[r])
          => /\ pc[r] \in {"ensureCloned", "clone"}
             /\ pc'[r] = "ret" /\ result'[r] = "nil"
             /\ pc[r] = "clone" => Outcome(r)'.exitCode = 0]_vars

\* An initialised controller on which git pull has just failed.
C7_Witness ==
  \E r \in Repos :
    /\ isInitialised[r]
    /\ pc[r] = "ret" /\ result[r] = "error" /\ Has(trace[r], "pull")

\* C8: when the scale-up command fails (error value or non-zero exit code)
\* DeployContainers returns an error at once: the settle wait is not
\* entered and the scale-down command is not issued.
C8_ScaleUpFailureAborts ==
  [][\A r \in Repos :
       (pc[r] = "scaleUp" /\ pc'[r] # "scaleUp"
        /\ (Outcome(r)'.err \/ Outcome(r)'.exitCode # 0))
       => /\ pc'[r] = "ret" /\ result'[r] = "error"
          /\ ~Has(trace'[r], "settle")
          /\ ~Has(trace'[r], "scale-down")]_vars

\* DeployContainers has returned an error after scale-up exited 1.
C8_Witness ==
  \E r \in Repos :
    /\ pc[r] = "ret" /\ result[r] = "error"
    /\ Has(trace[r], "scale-up") /\ ~Has(trace[r], "settle")
    /\ Outcome(r).exitCode = 1

\* C9: when the context is cancelled during the settle wait, DeployContainers
\* leaves the wait by returning the cancellation error, without issuing the
\* scale-down command.
C9_CancelledSettleSkipsScaleDown ==
  [][\A r \in Repos :
       (pc[r] = "settle" /\ cancelled /\ pc'[r] # "settle")
       => /\ pc'[r] = "ret" /\ result'[r] = "ctxErr"
          /\ ~Has(trace'[r], "scale-down")]_vars

\* Everything that belongs to repository r: its controller's fields and the
\* position and locals of the goroutine that monitors it.
Owned(r) ==
  <<isInitialised[r], workingPath[r], mon[r], proc[r], pc[r], result[r],
    procResult[r], trace[r], localCommit[r], remoteCommit[r], lastOutcome[r]>>

\* A step that changes anything of one repository changes nothing of another.
Isolated ==
  \A r \in Repos : \A s \in Repos \ {r} :
    Owned(r)' # Owned(r) => Owned(s)' = Owned(s)

\* Wherever the other goroutines are, a goroutine waiting for its tick can
\* take it, and a goroutine inside a cycle can take its next step.
NeverHeldUp ==
  \A r \in Repos :
    /\ mon[r] = "waitTick" => ENABLED monitorTick(r)
    /\ mon[r] \in {"start", "initial", "scheduled"} => ENABLED MonitorStep(r)

\* The repository whose goroutine keeps running while the other one may
\* fail, be slow, or hang in a command for ever.
Other == repos[Len(repos)]

StartsCycle(r) ==
  mon[r] = "scheduled" /\ proc[r] = "ensureCloned" /\ pc[r] = "ensureCloned"

\* Run launches every goroutine and the goroutine of Other is scheduled; no
\* other goroutine is required to take a step.
SpecOtherRuns ==
  Spec /\ WF_vars(Run) /\ WF_vars(MonitorStep(Other))

\* C10: a step of one repository's goroutine changes no field, position or
\* result of another repository; no goroutine's next step waits for another
\* goroutine; and a repository whose goroutine is scheduled starts a
\* Process cycle again and again until the context is cancelled, although
\* the other repository's cycles fail, are slow or never return.
C10_RepositoriesIndependent ==
  /\ [][Isolated]_vars
  /\ []NeverHeldUp
  /\ []<>(cancelled \/ StartsCycle(Other))

\* Other starts a scheduled cycle while the initial cycle of the first
\* repository is still waiting for its clone command to return.
C10_Witness ==
  /\ StartsCycle(Other)
  /\ ~cancelled
  /\ mon[repos[1]] = "initial" /\ pc[repos[1]] = "clone"
  /\ ~isInitialised[repos[1]] /\ isInitialised[Other]

\* Where a goroutine that was launched and has not returned can be.
Running == {"start", "initial", "waitTick", "scheduled"}

\* Run has launched one goroutine for each of the first runIdx repositories,
\* and the WaitGroup counts the ones that have not returned.
OneTaskEach ==
  /\ \A i \in DOMAIN repos : (mon[repos[i]] # "unstarted") <=> (i <= runIdx)
  /\ wg = Cardinality({r \in Repos : mon[r] \in Running})

\* A step that enters Process for r.
CycleStarts(r) ==
  /\ proc'[r] = "ensureCloned" /\ pc'[r] = "ensureCloned"
  /\ trace'[r] = <<>>
  /\ CallState(r)' # CallState(r)

NoOverlap ==
  \A r \in Repos :
    /\ (mon'[r] = "start" /\ mon[r] # "start") => mon[r] = "unstarted"
    /\ CycleStarts(r) => proc[r] = "none" /\ pc[r] = "idle"

\* C11: Run launches exactly one goroutine per repository, never a second
\* one, and Process is entered for a repository only while no Process call
\* of that repository is in progress, however long that call takes.
C11_OneCycleAtATime == []OneTaskEach /\ [][NoOverlap]_vars

\* A scheduled cycle sits in the 30 s settle wait, both goroutines alive.
C11_Witness ==
  \E r \in Repos :
    /\ mon[r] = "scheduled" /\ pc[r] = "settle"
    /\ wg = Len(repos)

\* Run has returned only with the context cancelled and every goroutine gone.
ReturnedAfterAll ==
  runDone => cancelled /\ \A r \in Repos : mon[r] = "exited"

\* A goroutine exits, or Run returns, only with the context cancelled,
\* whatever the cycle that just ended returned.
ExitOnlyCancelled ==
  /\ \A r \in Repos : (mon'[r] = "exited" /\ mon[r] # "exited") => cancelled
  /\ (runDone' /\ ~runDone) => cancelled

\* C12: Run does not return while a monitoring goroutine is running, and it
\* returns only after cancellation; a failed cycle makes neither a goroutine
\* exit nor Run return while the context is not cancelled.
C12_RunWaitsForAll == []ReturnedAfterAll /\ [][ExitOnlyCancelled]_vars

\* Run has returned after both goroutines exited.
C12_Witness == runDone /\ wg = 0 /\ \A r \in Repos : mon[r] = "exited"

\* Run with the Go scheduler running every goroutine that can take a step:
\* Run itself, each monitorRepository goroutine, and every external command
\* in flight returning (a step of the goroutine that waits for it); the
\* runtime ends the process once a goroutine has panicked.
SpecScheduled ==
  /\ Spec
  /\ WF_vars(Run)
  /\ WF_vars(RunReturn)
  /\ WF_vars(FatalPanic)
  /\ \A r \in Repos : WF_vars(MonitorStep(r))

AllExited == \A r \in Repos : mon[r] = "exited"

\* C13: once the context is cancelled, and every command in flight returns,
\* every monitoring goroutine exits and Run returns, wherever the goroutines
\* were: waiting for a tick, in the settle wait or inside a step.
C13_CancelStopsEverything == cancelled ~> (AllExited /\ runDone)

\* The context is cancelled with one goroutine in the settle wait and
\* another waiting for its tick.
C13_Witness ==
  /\ cancelled
  /\ \E r, q \in Repos : pc[r] = "settle" /\ mon[q] = "waitTick"

\* Process has returned to the goroutine of r and the result is not read yet.
CycleReturned(r) ==
  mon[r] \in {"initial", "scheduled"} /\ proc[r] = "ret"

\* The goroutine goes from a returned cycle back to the tick wait whatever
\* the cycle returned.
LoopGoesOn ==
  \A r \in Repos :
    (CycleReturned(r) /\ ~cancelled /\ mon'[r] # mon[r])
      => mon'[r] = "waitTick"

\* In the tick wait the goroutine can take the next tick.
TickTaken == \A r \in Repos : mon[r] = "waitTick" => ENABLED monitorTick(r)

\* C14: a failed cycle, the initial one or a scheduled one, does not stop the
\* loop: while the context is not cancelled the goroutine returns to the tick
\* wait after every cycle, and after a failed cycle it starts Process again
\* on a following tick.
C14_FailureDoesNotStopLoop ==
  /\ [][LoopGoesOn]_vars
  /\ []TickTaken
  /\ \A r \in Repos :
       (CycleReturned(r) /\ procResult[r] = "error" /\ ~cancelled)
         ~> (cancelled \/ (mon[r] = "scheduled" /\ StartsCycle(r)))

\* A scheduled cycle starts for a repository whose earlier cycles all failed
\* in ensureCloned.
C14_Witness ==
  \E r \in Repos :
    /\ mon[r] = "scheduled" /\ StartsCycle(r)
    /\ ~isInitialised[r] /\ ~cancelled

Commands ==
  {"clone", "fetch", "rev-parse HEAD", "rev-parse origin", "merge-base",
   "pull", "build", "scale-up", "scale-down"}

\* The step hands a command of r to the executor.
IssuesCommand(r) ==
  /\ Len(trace'[r]) > Len(trace[r])
  /\ \E i \in (Len(trace[r]) + 1)..Len(trace'[r]) : trace'[r][i] \in Commands

\* With the context cancelled the goroutine in the tick wait starts no cycle,
\* and a cycle started from a tick finds the context not cancelled when it
\* issues its first command.
CancelWinsTick ==
  \A r \in Repos :
    /\ (mon[r] = "waitTick" /\ cancelled) => mon'[r] # "scheduled"
    /\ (StartsCycle(r) /\ cancelled) => ~IssuesCommand(r)

\* C15: on a tick the loop looks at the context before Process: once the
\* context is cancelled no new cycle starts and the loop issues no command,
\* also when the tick and ctx.Done() are ready together.
C15_CancelBeatsTick == [][CancelWinsTick]_vars

\* A step of Process has returned success to it.
StepSucceeded(r) ==
  /\ proc[r] \in StepNames /\ pc[r] = "ret"
  /\ ~StepFailed(result[r])

\* After a step that succeeded with the context cancelled, the next thing
\* Process does is return ctx.Err(), without entering another step.
CancelEndsCycle ==
  \A r \in Repos :
    (StepSucceeded(r) /\ cancelled /\ mon[r] # "client"
       /\ CallState(r)' # CallState(r))
      => /\ proc'[r] = "ret" /\ procResult'[r] = "ctxErr"
         /\ trace'[r] = trace[r]

\* C16: Process tests the context after each of ensureCloned,
\* CheckForUpdates, PullChanges, BuildContainers and DeployContainers: when
\* the context is cancelled during a step that itself succeeds, no later step
\* is entered and Process returns the cancellation as its error.
C16_CancelBetweenSteps == [][CancelEndsCycle]_vars

\* Process returned the cancellation after a pull that succeeded; the build
\* was not entered.
C16_Witness ==
  \E r \in Repos :
    /\ proc[r] = "ret" /\ procResult[r] = "ctxErr"
    /\ Has(trace[r], "pull") /\ ~Has(trace[r], "BuildContainers")

GuardedMethods ==
  {"CheckForUpdates", "PullChanges", "BuildContainers", "DeployContainers"}

\* A guarded method entered with the flag false returns an error at once:
\* the trace gains the method's name only, and the Repository is as before.
RefusedUninitialised ==
  \A r \in Repos :
    (pc[r] \in GuardedMethods /\ ~isInitialised[r] /\ pc'[r] # pc[r])
      => /\ pc'[r] = "ret" /\ result'[r] = "error"
         /\ trace'[r] = Append(trace[r], pc[r])
         /\ ~IssuesCommand(r)
         /\ isInitialised'[r] = isInitialised[r]
         /\ workingPath'[r] = workingPath[r]

\* C17: CheckForUpdates, PullChanges, BuildContainers and DeployContainers
\* called with isInitialised false each return the not-initialised error,
\* hand no command to the executor and leave the Repository unchanged.
C17_NotInitialisedRefused == [][RefusedUninitialised]_vars

\* DeployContainers called directly on a fresh Repository has returned the
\* error.
C17_Witness ==
  \E r \in Repos :
    /\ mon[r] = "client" /\ ~isInitialised[r]
    /\ pc[r] = "ret" /\ result[r] = "error"
    /\ trace[r] = <<"DeployContainers">>

\* While the flag is false a cycle has entered nothing but ensureCloned.
OnlyEnsureWhileUninitialised ==
  \A r \in Repos :
    (proc[r] # "none" /\ ~isInitialised[r])
      => \A i \in DOMAIN trace[r] : trace[r][i] \in {"ensureCloned", "clone"}

\* ensureCloned returns an error exactly when it leaves the flag false; a
\* clone that exits non-zero or cannot be spawned is such a return; and
\* Process answers a failed ensureCloned by returning the failure.
EnsureFailureEndsCycle ==
  \A r \in Repos :
    /\ (pc[r] \in {"ensureCloned", "clone"} /\ pc'[r] = "ret")
         => (result'[r] = "error" <=> ~isInitialised'[r])
    /\ (pc[r] = "clone" /\ pc'[r] = "ret"
          /\ (Outcome(r)'.exitCode # 0 \/ Outcome(r)'.err))
         => result'[r] = "error" /\ ~isInitialised'[r]
    /\ (proc[r] = "ensureCloned" /\ pc[r] = "ret" /\ result[r] = "error"
          /\ CallState(r)' # CallState(r))
         => /\ proc'[r] = "ret" /\ procResult'[r] = "error"
            /\ trace'[r] = trace[r]

\* C18: when ensureCloned fails (git clone exits non-zero or cannot be
\* spawned, or a probe of the filesystem fails) it returns an error with
\* isInitialised still false, and the same Process cycle issues no fetch,
\* pull, build or deploy.
C18_FailedEnsureStopsCycle ==
  []OnlyEnsureWhileUninitialised /\ [][EnsureFailureEndsCycle]_vars

\* A cycle ended in failure after a git clone that failed.
C18_Witness ==
  \E r \in Repos :
    /\ proc[r] = "ret" /\ procResult[r] = "error" /\ ~isInitialised[r]
    /\ trace[r] = <<"ensureCloned", "clone">>

\* The part of a trace that belongs to the last DeployContainers call.
DeployTrace(t) ==
  LET S == {i \in DOMAIN t : t[i] = "DeployContainers"}
  IN IF S = {} THEN <<>>
     ELSE SubSeq(t, CHOOSE i \in S : \A j \in S : j <= i, Len(t))

IsScaleCommand(x) == x \in {"scale-up", "scale-down"}

\* The instance counts the scale commands of a trace ask for, in order.
ScaleArgs(t) ==
  LET c == SelectSeq(t, IsScaleCommand)
  IN [i \in DOMAIN c |-> ScaleArg(c[i])]

CleanExit(o) == o.exitCode = 0 /\ ~o.err

DeployRuns ==
  \A r \in Repos :
    /\ (pc[r] = "scaleUp" /\ pc'[r] # "scaleUp" /\ CleanExit(Outcome(r)'))
         => pc'[r] = "settle"
    /\ (pc[r] = "settle" /\ ~cancelled /\ pc'[r] # "settle")
         => pc'[r] = "scaleDown"
    /\ (pc[r] = "scaleDown" /\ pc'[r] = "ret")
         => (result'[r] = "nil" <=> CleanExit(Outcome(r)'))
    /\ (pc[r] \in {"scaleUp", "settle", "scaleDown"}
          /\ pc'[r] = "ret" /\ result'[r] = "nil")
         => /\ DeployTrace(trace'[r]) =
                 <<"DeployContainers", "scale-up", "settle", "scale-down">>
            /\ ScaleArgs(DeployTrace(trace'[r])) = <<2, 1>>

\* C19: a deploy whose two scale commands exit 0, with no cancellation,
\* issues exactly two commands: scale up to 2 instances, then, after the
\* settle wait, scale down to 1; it returns success, the last command having
\* asked for the baseline count.
C19_DeployScalesUpThenDown == [][DeployRuns]_vars

\* DeployContainers has returned success inside a cycle.
C19_Witness ==
  \E r \in Repos :
    /\ proc[r] = "DeployContainers" /\ pc[r] = "ret" /\ result[r] = "nil"
    /\ ~cancelled
    /\ ScaleArgs(trace[r]) = <<initialScale + 1, initialScale>>

\* LoadConfig has returned.
Loaded == load.pc = "done"

\* The result is either a configuration or an error, never both or neither.
ConfigOrError == Loaded => (load.isNil <=> load.err)

AnyRequiredEmpty(e) ==
  \E f \in {"BasePath", "GitURL", "CloneDirName", "Branch", "ServiceName"} :
    e[f] = ""

\* Something went wrong on the way: the path, the file, the document, or
\* the entry last looked at.
LoadFailure ==
  \/ load.filePath = ""
  \/ ~load.absOk
  \/ load.read # "ok"
  \/ ~load.yamlOk
  \/ AnyRequiredEmpty(load.entry) /\ load.n > 0

\* C20: LoadConfig returns nil and a non-nil error for the empty path and
\* for every other failure (file absent or unreadable, malformed document,
\* an entry without a required field), and never a configuration together
\* with an error.
C20_LoadConfigNilOnFailure ==
  /\ ConfigOrError
  /\ (Loaded /\ LoadFailure) => (load.isNil /\ load.err)
  /\ (Loaded /\ ~load.isNil)
       => /\ Len(load.cfg) = load.n
          /\ \A k \in DOMAIN load.cfg : ~AnyRequiredEmpty(load.cfg[k])

\* LoadConfig("") has returned nil and an error.
C20_Witness ==
  Loaded /\ load.filePath = "" /\ load.isNil /\ load.err

\* LoadConfig has returned nil and an error for a second entry without
\* serviceName.
C20_WitnessEntry ==
  /\ Loaded /\ load.isNil /\ load.err /\ load.i = 1
  /\ load.entry.ServiceName = "" /\ load.entry.Branch # ""

DetectCommands ==
  <<"fetch", "rev-parse HEAD", "rev-parse origin", "merge-base">>

IsDetectCommand(x) == \E i \in DOMAIN DetectCommands : DetectCommands[i] = x

\* The command failed: it exited non-zero or could not be spawned.
CommandFailed(o) == o.err \/ o.exitCode # 0

\* The commands of CheckForUpdates are issued in the one order, and fetch
\* or a rev-parse that fails ends the call with an error and nothing more
\* issued; merge-base is issued only for two different commits.
DetectInOrder ==
  \A r \in Repos :
    /\ IsPrefix(SelectSeq(trace'[r], IsDetectCommand), DetectCommands)
    /\ (pc[r] \in {"fetch", "revLocal", "revRemote"} /\ pc'[r] # pc[r]
          /\ CommandFailed(Outcome(r)'))
         => /\ pc'[r] = "ret" /\ result'[r] = "error"
            /\ trace'[r] = trace[r]
    /\ (pc[r] = "revRemote" /\ pc'[r] = "ancestor")
         => localCommit[r] # remoteCommit'[r]
    /\ (pc[r] = "revRemote" /\ pc'[r] = "ret" /\ result'[r] = "false")
         => ~Has(trace'[r], "merge-base")

\* A merge-base that fails for another reason than exit code 1 ends the call
\* with an error.
AncestorFailureIsError ==
  \A r \in Repos :
    (pc[r] = "ancestor" /\ pc'[r] = "ret"
       /\ Outcome(r)'.exitCode \notin {0, 1})
      => result'[r] = "error"

\* C21: CheckForUpdates issues fetch, rev-parse HEAD, rev-parse
\* origin/<branch> and merge-base --is-ancestor in that order; a step that
\* fails makes it return an error with no later command issued; merge-base
\* is not issued when the two commits are equal.
C21_DetectOrderShortCircuit ==
  [][DetectInOrder /\ AncestorFailureIsError]_vars

\* The order of the commands and the short circuit of the first three hold
\* for every CommandExecutor.
DetectOrderHolds == [][DetectInOrder]_vars

\* Process enters BuildContainers only from a PullChanges that returned nil,
\* and DeployContainers only from a BuildContainers that returned nil, in a
\* cycle whose pull was issued.
BuildDeployAfterPull ==
  \A r \in Repos :
    /\ (proc'[r] = "BuildContainers" /\ proc[r] # "BuildContainers")
         => /\ proc[r] = "PullChanges" /\ result[r] = "nil"
            /\ Has(trace[r], "pull")
    /\ (proc'[r] = "DeployContainers" /\ proc[r] # "DeployContainers")
         => /\ proc[r] = "BuildContainers" /\ result[r] = "nil"
            /\ Has(trace[r], "pull")

\* A cycle that runs while the pulled commit waits to be deployed: an
\* earlier call pulled it, no deploy of it succeeded, the remote has not
\* moved.
LaterCycle(r) ==
  /\ env[r].followed /\ env[r].head = "pulled"
  /\ proc[r] # "none"
  /\ ~Has(trace[r], "pull")

\* In such a cycle CheckForUpdates does not return true and nothing of pull,
\* build or deploy is entered.
NotRetried ==
  \A r \in Repos :
    LaterCycle(r)
      => /\ \A i \in DOMAIN trace[r] :
              trace[r][i] \notin
                {"PullChanges", "BuildContainers", "DeployContainers"}
         /\ (proc[r] = "CheckForUpdates" /\ pc[r] = "ret")
              => result[r] \in {"false", "error"}

\* C22: a cycle enters build and deploy only after its own pull succeeded;
\* once a pull has succeeded and the build or the deploy of that commit has
\* not, every later cycle in which the remote branch has not advanced gets
\* no updates from CheckForUpdates and enters neither build nor deploy.
C22_FailedDeployNotRetried ==
  []NotRetried /\ [][BuildDeployAfterPull]_vars

\* After a Process that failed, the next Process has returned success with
\* the pulled commit still not deployed.
C22_Witness ==
  \E r \in Repos :
    /\ LaterCycle(r)
    /\ proc[r] = "ret" /\ procResult[r] = "nil"
    /\ Has(trace[r], "rev-parse origin")
    /\ Len(callLog[r]) = 2
    /\ callLog[r][1].method = "Process" /\ callLog[r][1].ret = "error"

DeployInProgress(r) ==
  pc[r] \in {"DeployContainers", "scaleUp", "settle", "scaleDown"}

\* Every scale command asks for 1 or 2 instances, and the service has 1 or 2.
OneOrTwo ==
  \A r \in Repos :
    /\ env[r].instances \in {1, 2}
    /\ \A i \in DOMAIN trace[r] :
         IsScaleCommand(trace[r][i]) => ScaleArg(trace[r][i]) \in {1, 2}

\* C23 as stated: the instance count asked for is always 1 or 2, and with no
\* deploy in progress the service has 2 instances only if the last deploy
\* was cancelled in the settle wait or its scale-down failed.
C23_TwoOnlyAfterLastDeploy ==
  /\ OneOrTwo
  /\ \A r \in Repos :
       (env[r].followed /\ ~DeployInProgress(r) /\ env[r].instances = 2)
         => env[r].lastDeploy \in {"cancelled", "scaleDownFailed"}

\* C23, amended: the instance count asked for is always 1 or 2; a deploy
\* that returns success leaves 1 instance; with no deploy in progress the
\* service has 2 instances only if, since the last scale-down that
\* succeeded, some deploy was cancelled in the settle wait or had its
\* scale-down fail, the last deploy being that one or one whose scale-up
\* failed.
C23_TwoOnlyAfterUnfinishedDeploy ==
  /\ OneOrTwo
  /\ \A r \in Repos :
       env[r].followed =>
         /\ (~DeployInProgress(r) /\ env[r].instances = 2)
              => /\ env[r].overScaledBy \in {"cancelled", "scaleDownFailed"}
                 /\ env[r].lastDeploy \in
                      {"cancelled", "scaleDownFailed", "scaleUpFailed"}
         /\ (~DeployInProgress(r) /\ env[r].lastDeploy = "ok")
              => env[r].instances = 1

\* A cycle has ended in a deploy whose scale-up failed, with the second
\* instance of an earlier deploy still running.
C23_Witness ==
  \E r \in Repos :
    /\ env[r].followed /\ ~DeployInProgress(r)
    /\ proc[r] = "ret" /\ procResult[r] = "error"
    /\ Has(trace[r], "scale-up") /\ ~Has(trace[r], "settle")
    /\ env[r].instances = 2 /\ env[r].lastDeploy = "scaleUpFailed"
    /\ env[r].overScaledBy = "scaleDownFailed"

IsDeliveryCommand(x) == x \in {"pull", "build", "scale-up", "scale-down"}

\* Process returns nil in this step.
ProcessSucceeds(r) ==
  proc'[r] = "ret" /\ proc[r] # "ret" /\ procResult'[r] = "nil"

SuccessTwoWays ==
  \A r \in Repos :
    /\ ProcessSucceeds(r)
         => \/ /\ proc[r] = "CheckForUpdates" /\ result[r] = "false"
               /\ StepsOf(trace[r]) = <<"ensureCloned", "CheckForUpdates">>
               /\ SelectSeq(trace[r], IsDeliveryCommand) = <<>>
            \/ /\ proc[r] = "DeployContainers" /\ result[r] = "nil"
               /\ StepsOf(trace[r]) = Steps
               /\ SelectSeq(trace[r], IsDeliveryCommand) =
                    <<"pull", "build", "scale-up", "scale-down">>
    /\ (proc[r] # "none" /\ pc[r] \in {"pull", "build", "scaleDown"}
          /\ pc'[r] = "ret" /\ result'[r] = "nil")
         => CleanExit(Outcome(r)')
    /\ (proc[r] # "none" /\ pc[r] = "scaleUp" /\ pc'[r] = "settle")
         => CleanExit(Outcome(r)')

\* C24: Process returns nil only when CheckForUpdates returned false in this
\* cycle, or when pull, build, scale-up and scale-down were issued in that
\* order in this cycle and each exited 0; never after a step that failed or
\* was left out.
C24_SuccessOnlyTwoWays == [][SuccessTwoWays]_vars

\* Process has returned nil after a whole delivery.
C24_Witness ==
  \E r \in Repos :
    /\ proc[r] = "ret" /\ procResult[r] = "nil"
    /\ SelectSeq(trace[r], IsDeliveryCommand) =
         <<"pull", "build", "scale-up", "scale-down">>

\* Process has returned nil because there was nothing to pull.
C24_WitnessNoUpdates ==
  \E r \in Repos :
    /\ proc[r] = "ret" /\ procResult[r] = "nil"
    /\ ~Has(trace[r], "PullChanges")

====
